---- MODULE Spec2Model ----
(***************************************************************************)
(* The evaluation engine of kalkon (class Kalkon of src/kalkon/kalkon.py): *)
(* command dispatch, assignment detection, the history stack, the numeric  *)
(* codec, the evaluate / pop / clear / is_stack_updated operations and the *)
(* accessors get_result / get_expression.                                  *)
(*                                                                         *)
(* Text is a sequence of one-character strings, so that startswith and the *)
(* substring tests of the code are computed, not looked up.  A Python      *)
(* value is a record [t, v, s]: its type name, its number and its text.    *)
(* A method is an operator on the record `self` of the object's fields; it *)
(* yields [self, ret, raised]: the fields after the call, the value        *)
(* returned and whether the call raised instead of returning.              *)
(***************************************************************************)
EXTENDS Integers, Sequences, FiniteSets, TLC

VARIABLES
    _stack,          \* self._stack: list of (expression, result) tuples
    _type,           \* self._type: ValueType
    _format,         \* self._format: ValueFormat
    _status,         \* self._status: text
    _error,          \* self._error: bool
    _stack_updated,  \* self._stack_updated: bool
    symtable,        \* self._interpreter.symtable: the live bindings
    interp_error,    \* self._interpreter.error: errors of the last live run
    call,            \* the public operation called last and its arguments
    ret,             \* the value that call returned
    raised           \* TRUE when that call raised instead of returning

vars == <<_stack, _type, _format, _status, _error, _stack_updated,
          symtable, interp_error, call, ret, raised>>

\* Longest history stack the model explores (the code's list is unbounded).
MaxStack == 3

\* Kalkon.STACK_DEPTH, the depth the class declares.
STACK_DEPTH == 5

\* Longest history stack explored under SpecDepth, past the declared depth.
MaxDepth == 7

----------------------------------------------------------------------------
\* Python values

None == [t |-> "NoneType", v |-> 0, s |-> <<>>]
PyInt(n) == [t |-> "int", v |-> n, s |-> <<>>]
PyBool(b) == [t |-> "bool", v |-> IF b THEN 1 ELSE 0, s |-> <<>>]
PyStr(text) == [t |-> "str", v |-> 0, s |-> text]
PyBuiltin(name) == [t |-> "builtin_function_or_method", v |-> 0, s |-> name]
\* An int of ten decimal digits or more: v is its sign and s the decimal
\* digits of its magnitude (PyInt holds the shorter ones as a number).
PyLong(negative, digits) ==
    [t |-> "int", v |-> IF negative THEN -1 ELSE 1, s |-> digits]
\* A float: s is its repr, v its sign.
PyFloat(negative, text) ==
    [t |-> "float", v |-> IF negative THEN -1 ELSE 1, s |-> text]
True == PyBool(TRUE)
False == PyBool(FALSE)

\* str.startswith(prefix)
startswith(text, prefix) ==
    /\ Len(text) >= Len(prefix)
    /\ SubSeq(text, 1, Len(prefix)) = prefix

\* `sub in text` on two strings
contains(text, sub) ==
    \E i \in 1..(Len(text) - Len(sub) + 1) : SubSeq(text, i, i + Len(sub) - 1) = sub

Digit(d) == <<"0", "1", "2", "3", "4", "5", "6", "7", "8", "9">>[d + 1]

RECURSIVE NatStr(_)
NatStr(n) == IF n < 10 THEN <<Digit(n)>> ELSE NatStr(n \div 10) \o <<Digit(n % 10)>>

\* str(value) of Python
str(value) ==
    CASE value.t = "NoneType" -> <<"N", "o", "n", "e">>
      [] value.t = "bool" -> IF value.v = 1 THEN <<"T", "r", "u", "e">>
                             ELSE <<"F", "a", "l", "s", "e">>
      [] value.t = "int" -> IF value.s # <<>>
                            THEN (IF value.v < 0 THEN <<"-">> ELSE <<>>) \o value.s
                            ELSE IF value.v < 0 THEN <<"-">> \o NatStr(-value.v)
                            ELSE NatStr(value.v)
      [] value.t = "float" -> (IF value.v < 0 THEN <<"-">> ELSE <<>>) \o value.s
      [] value.t = "str" -> value.s
      [] value.t = "builtin_function_or_method" ->
            <<"<", "b", "u", "i", "l", "t", "-", "i", "n", " ",
              "f", "u", "n", "c", "t", "i", "o", "n", " ">> \o value.s \o <<">">>

----------------------------------------------------------------------------
\* Python's unbounded int.  The magnitude of an int is handled as its
\* base-256 digits, least significant first and without a zero at the top:
\* the bytes int.to_bytes and int.from_bytes work on.

DigitValue(c) == CHOOSE d \in 0..9 : Digit(d) = c

IsDigits(text) ==
    /\ text # <<>>
    /\ \A i \in 1..Len(text) : \E d \in 0..9 : text[i] = Digit(d)

RECURSIVE NatBytes(_)
NatBytes(n) == IF n = 0 THEN <<>> ELSE <<n % 256>> \o NatBytes(n \div 256)

RECURSIVE BytesNat(_)
BytesNat(m) == IF m = <<>> THEN 0 ELSE Head(m) + 256 * BytesNat(Tail(m))

\* The bytes of m * k + c, for small k and c.
RECURSIVE MulAdd(_, _, _)
MulAdd(m, k, c) ==
    IF m = <<>>
    THEN NatBytes(c)
    ELSE LET t == Head(m) * k + c
         IN  <<t % 256>> \o MulAdd(Tail(m), k, t \div 256)

\* Quotient and remainder of m by a small d; the quotient keeps m's length.
RECURSIVE DivMod(_, _)
DivMod(m, d) ==
    IF m = <<>>
    THEN [q |-> <<>>, r |-> 0]
    ELSE LET hi == DivMod(Tail(m), d)
             cur == hi.r * 256 + Head(m)
         IN  [q |-> <<cur \div d>> \o hi.q, r |-> cur % d]

RECURSIVE Strip(_)
Strip(m) ==
    IF m # <<>> /\ m[Len(m)] = 0 THEN Strip(SubSeq(m, 1, Len(m) - 1)) ELSE m

\* Decimal digits to bytes and back (no digit for zero).
RECURSIVE DigitsBytes(_)
DigitsBytes(digits) ==
    IF digits = <<>>
    THEN <<>>
    ELSE MulAdd(DigitsBytes(SubSeq(digits, 1, Len(digits) - 1)),
                10, DigitValue(digits[Len(digits)]))

RECURSIVE BytesDigits(_)
BytesDigits(m) ==
    IF m = <<>>
    THEN <<>>
    ELSE LET d == DivMod(m, 10)
         IN  BytesDigits(Strip(d.q)) \o <<Digit(d.r)>>

\* The int of a sign and a magnitude.
IntOf(negative, m) ==
    LET digits == BytesDigits(m)
    IN  IF Len(digits) < 10
        THEN PyInt(IF negative THEN -BytesNat(m) ELSE BytesNat(m))
        ELSE PyLong(negative, digits)

\* The magnitude of an int or a bool.
Magnitude(value) ==
    IF value.s # <<>>
    THEN DigitsBytes(value.s)
    ELSE NatBytes(IF value.v < 0 THEN -value.v ELSE value.v)

\* The bits of a byte and of a magnitude, most significant first.
ByteBits(b) == [i \in 1..8 |-> (b \div 2^(8 - i)) % 2]

RECURSIVE StripLeading(_)
StripLeading(bits) ==
    IF bits # <<>> /\ Head(bits) = 0 THEN StripLeading(Tail(bits)) ELSE bits

RECURSIVE AllBits(_)
AllBits(m) == IF m = <<>> THEN <<>> ELSE AllBits(Tail(m)) \o ByteBits(Head(m))

BitsOf(m) == StripLeading(AllBits(m))

RECURSIVE BitsNat(_)
BitsNat(bits) ==
    IF bits = <<>>
    THEN 0
    ELSE 2 * BitsNat(SubSeq(bits, 1, Len(bits) - 1)) + bits[Len(bits)]

\* A called function returns a value or raises.
Value(v) == [ret |-> v, raised |-> FALSE]
Raises == [ret |-> None, raised |-> TRUE]

\* int(value): int(inf) raises OverflowError.
int(value) ==
    CASE value.t = "float" -> Raises
      [] value.t = "bool" -> Value(PyInt(value.v))
      [] OTHER -> Value(value)

\* -value
Negative(value) ==
    CASE value.t = "float" -> PyFloat(value.v > 0, value.s)
      [] value.s # <<>> -> PyLong(value.v > 0, value.s)
      [] OTHER -> PyInt(-value.v)

\* abs(value)
abs(value) == IF value.v < 0 THEN Negative(value) ELSE value

\* Two's complement of a run of bytes: invert, add one.
RECURSIVE AddOne(_)
AddOne(bytes) ==
    IF bytes = <<>> THEN <<>>
    ELSE IF Head(bytes) = 255 THEN <<0>> \o AddOne(Tail(bytes))
    ELSE <<Head(bytes) + 1>> \o Tail(bytes)

Complement(bytes) == AddOne([i \in 1..Len(bytes) |-> 255 - bytes[i]])

\* int_value.to_bytes(length, "little", signed=True): OverflowError when
\* the value is not in [-2^(8*length-1), 2^(8*length-1)).
to_bytes(int_value, length) ==
    LET m == Magnitude(int_value)
        negative == int_value.v < 0
        fits == \/ Len(m) < length
                \/ /\ Len(m) = length
                   /\ \/ m[length] < 128
                      \/ /\ negative
                         /\ m[length] = 128
                         /\ \A i \in 1..(length - 1) : m[i] = 0
        padded == m \o [i \in 1..(length - Len(m)) |-> 0]
    IN  IF ~fits THEN Raises
        ELSE Value(IF negative THEN Complement(padded) ELSE padded)

\* from_bytes that takes the bytes as unsigned whatever `signed` says.
from_bytes_unsigned(bytes, signed) == IntOf(FALSE, Strip(bytes))

\* int.from_bytes(bytes, "little", signed=signed)
from_bytes(bytes, signed) ==
    IF signed /\ bytes[Len(bytes)] >= 128
    THEN IntOf(TRUE, Strip(Complement(bytes)))
    ELSE IntOf(FALSE, Strip(bytes))

HexDigit(d) ==
    <<"0", "1", "2", "3", "4", "5", "6", "7",
      "8", "9", "a", "b", "c", "d", "e", "f">>[d + 1]

RECURSIVE StripZeros(_)
StripZeros(text) ==
    IF Len(text) > 1 /\ Head(text) = "0" THEN StripZeros(Tail(text)) ELSE text

RECURSIVE HexDigits(_)
HexDigits(m) ==
    IF m = <<>> THEN <<>>
    ELSE HexDigits(Tail(m)) \o <<HexDigit(Head(m) \div 16), HexDigit(Head(m) % 16)>>

Sign(value) == IF value.v < 0 THEN <<"-">> ELSE <<>>

\* f"{value:b}" and f"{value:x}" of an int
format_b(value) ==
    LET bits == AllBits(Magnitude(value))
    IN  Sign(value) \o StripZeros(<<"0">> \o [i \in 1..Len(bits) |-> Digit(bits[i])])

\* format_x printing the bits where the hexadecimal digits belong.
format_x_binary(value) == format_b(value)

format_x(value) ==
    Sign(value) \o StripZeros(<<"0">> \o HexDigits(Magnitude(value)))

\* bin(value) and hex(value)
bin(value) == Sign(value) \o <<"0", "b">> \o format_b(abs(value))

hex(value) == Sign(value) \o <<"0", "x">> \o format_x(abs(value))

----------------------------------------------------------------------------
\* struct.pack("f", x) and struct.unpack("f", bytes): the IEEE-754 single of
\* a number, as four little-endian bytes.

RECURSIVE Increment(_)
Increment(bits) ==
    IF bits = <<>> THEN <<1>>
    ELSE IF bits[Len(bits)] = 0
    THEN SubSeq(bits, 1, Len(bits) - 1) \o <<1>>
    ELSE Increment(SubSeq(bits, 1, Len(bits) - 1)) \o <<0>>

\* An integer, given by its bits, rounded to `precision` significant bits,
\* ties to even.
RoundBits(bits, precision) ==
    IF Len(bits) <= precision
    THEN bits
    ELSE LET keep == SubSeq(bits, 1, precision)
             sticky == \E i \in (precision + 2)..Len(bits) : bits[i] = 1
             up == bits[precision + 1] = 1 /\ (sticky \/ keep[precision] = 1)
         IN  (IF up THEN Increment(keep) ELSE keep)
             \o [i \in 1..(Len(bits) - precision) |-> 0]

\* The four bytes of the single with this sign, biased exponent and fraction.
SingleBytes(negative, exponent, fraction) ==
    LET low == NatBytes(exponent * 2^23 + fraction)
        bytes == low \o [i \in 1..(4 - Len(low)) |-> 0]
    IN  [bytes EXCEPT ![4] = @ + IF negative THEN 128 ELSE 0]

Infinity == <<"i", "n", "f">>

\* The outcomes of struct.pack("f", value).  An int goes to a double first
\* (OverflowError from 2^1024 on), then to a single.  A finite value beyond
\* the range of a single raises OverflowError or packs as infinity,
\* depending on the version of the struct module.
struct_pack_f(value) ==
    IF value.t = "float"
    THEN {Value(SingleBytes(value.v < 0, 255, 0))}
    ELSE LET double == RoundBits(BitsOf(Magnitude(value)), 53)
             single == RoundBits(double, 24)
             fraction == SubSeq(single, 2, IF Len(single) < 24 THEN Len(single) ELSE 24)
         IN  IF Len(double) > 1024 THEN {Raises}
             ELSE IF Len(single) > 128
             THEN {Raises, Value(SingleBytes(value.v < 0, 255, 0))}
             ELSE IF single = <<>> THEN {Value(SingleBytes(FALSE, 0, 0))}
             ELSE {Value(SingleBytes(value.v < 0, Len(single) + 126,
                                     BitsNat(fraction)
                                     * 2^(23 - Len(fraction))))}

RECURSIVE ShiftLeft(_, _)
ShiftLeft(m, n) == IF n = 0 THEN m ELSE ShiftLeft(MulAdd(m, 2, 0), n - 1)

\* repr of a float that is a whole number of 17 digits or more, which
\* Python writes with an exponent and the shortest digits that round back.
LongRepr(digits) ==
    CASE digits = <<"9", "2", "2", "3", "3", "7", "2", "0", "3", "6",
                    "8", "5", "4", "7", "7", "5", "8", "0", "8">> ->
            <<"9", ".", "2", "2", "3", "3", "7", "2", "0", "3", "6",
              "8", "5", "4", "7", "7", "6", "e", "+", "1", "8">>
      [] digits = <<"1", "8", "4", "4", "6", "7", "4", "4", "0", "7",
                    "3", "7", "0", "9", "5", "5", "1", "6", "1", "6">> ->
            <<"1", ".", "8", "4", "4", "6", "7", "4", "4", "0", "7",
              "3", "7", "0", "9", "5", "5", "2", "e", "+", "1", "9">>

\* struct.unpack("f", bytes)[0], for the singles that are whole numbers or
\* infinite (the ones an int or an infinity packs to).
struct_unpack_f(bytes) ==
    LET negative == bytes[4] >= 128
        n == BytesNat([bytes EXCEPT ![4] = @ % 128])
        exponent == n \div 2^23
        fraction == n % 2^23
        significand == 2^23 + fraction
        whole == IF exponent >= 150
                 THEN ShiftLeft(NatBytes(significand), exponent - 150)
                 ELSE NatBytes(significand \div 2^(150 - exponent))
        digits == BytesDigits(whole)
    IN  IF exponent = 255 THEN PyFloat(negative, Infinity)
        ELSE IF exponent = 0 THEN PyFloat(negative, <<"0", ".", "0">>)
        ELSE IF Len(digits) <= 16 THEN PyFloat(negative, digits \o <<".", "0">>)
        ELSE PyFloat(negative, LongRepr(digits))

----------------------------------------------------------------------------
\* Enumerations

ValueType == {"F32", "INT8", "INT16", "INT32", "INT64",
              "UINT8", "UINT16", "UINT32", "UINT64"}

ValueFormat == {"DECIMAL", "HEXADECIMAL", "BINARY"}

----------------------------------------------------------------------------
\* The texts the model feeds to evaluate

T_empty == <<>>
T_dec == <<":", "d", "e", "c">>
T_hex == <<":", "h", "e", "x">>
T_bin == <<":", "b", "i", "n">>
T_f32 == <<":", "f", "3", "2">>
T_i8 == <<":", "i", "8">>
T_i16 == <<":", "i", "1", "6">>
T_i32 == <<":", "i", "3", "2">>
T_i64 == <<":", "i", "6", "4">>
T_u8 == <<":", "u", "8">>
T_u16 == <<":", "u", "1", "6">>
T_u32 == <<":", "u", "3", "2">>
T_u64 == <<":", "u", "6", "4">>
T_clear == <<":", "c", "l", "e", "a", "r">>
T_bogus == <<":", "b", "o", "g", "u", "s">>      \* ":bogus", no command
T_DEC == <<":", "D", "E", "C">>                    \* ":DEC", the table is case-sensitive
T_sum == <<"2", "+", "2">>                         \* "2+2"
T_dangling == <<"2", "+">>                         \* "2+", a syntax error
T_a_is_5 == <<"a", "=", "5">>                      \* "a=5"
T_b_is_a1 == <<"b", "=", "a", "+", "1">>           \* "b=a+1"
T_a_eq_5 == <<"a", "=", "=", "5">>                 \* "a==5"
T_abs == <<"a", "b", "s">>                         \* "abs", a built-in function
T_abs_is_3 == <<"a", "b", "s", "=", "3">>          \* "abs=3"
T_b_is_abs6 == <<"b", "=", "a", "b", "s", "(", "6", ")">>  \* "b=abs(6)"

T_300 == <<"3", "0", "0">>
T_minus_1 == <<"-", "1">>
T_128 == <<"1", "2", "8">>
T_minus_129 == <<"-", "1", "2", "9">>
T_65535 == <<"6", "5", "5", "3", "5">>
T_2p31 == <<"2", "1", "4", "7", "4", "8", "3", "6", "4", "8">>      \* 2^31
T_2p32_5 == <<"4", "2", "9", "4", "9", "6", "7", "3", "0", "1">>    \* 2^32 + 5
T_int64_max == <<"9", "2", "2", "3", "3", "7", "2", "0", "3", "6",
                 "8", "5", "4", "7", "7", "5", "8", "0", "7">>      \* 2^63 - 1
T_int64_min == <<"-", "9", "2", "2", "3", "3", "7", "2", "0", "3", "6",
                 "8", "5", "4", "7", "7", "5", "8", "0", "8">>      \* -2^63
T_2p63 == <<"9", "2", "2", "3", "3", "7", "2", "0", "3", "6",
            "8", "5", "4", "7", "7", "5", "8", "0", "8">>           \* 2^63
T_below_int64 == <<"-", "9", "2", "2", "3", "3", "7", "2", "0", "3", "6",
                   "8", "5", "4", "7", "7", "5", "8", "0", "9">>    \* -2^63 - 1
T_2p128 == <<"3", "4", "0", "2", "8", "2", "3", "6", "6", "9", "2", "0", "9",
             "3", "8", "4", "6", "3", "4", "6", "3", "3", "7", "4", "6", "0",
             "7", "4", "3", "1", "7", "6", "8", "2", "1", "1", "4", "5", "6">>  \* 2^128
T_1e999 == <<"1", "e", "9", "9", "9">>                              \* "1e999", the float inf

Commands == {T_dec, T_hex, T_bin, T_f32, T_i8, T_i16, T_i32, T_i64,
             T_u8, T_u16, T_u32, T_u64, T_clear}

\* The expressions, the assignments and the texts the interpreter rejects.
Expressions == {T_sum, T_dangling, T_a_is_5, T_b_is_a1, T_a_eq_5,
                T_abs, T_abs_is_3, T_b_is_abs6}

\* What the user types under Spec: every kind of expression and assignment,
\* with the empty text, one command and one unknown command.
Inputs == Expressions \cup {T_empty, T_clear, T_bogus}

\* What the user types under SpecCmd: every command of the table and the
\* unknown ones, with the empty text and one text for each other path of
\* evaluate (an expression, a rejected text, an assignment, a built-in).
CmdInputs == Commands \cup
             {T_empty, T_bogus, T_DEC, T_sum, T_dangling, T_a_is_5, T_abs}

\* Integer literals whose raw result fits the 8-byte signed container.
InRange == {T_300, T_minus_1, T_128, T_minus_129, T_65535, T_2p31, T_2p32_5,
            T_int64_max, T_int64_min}

\* Literals whose raw result does not fit it.
TooLarge == {T_2p63, T_below_int64, T_2p128, T_1e999}

\* What is committed before the codec is exercised under SpecNum.
NumInputs == InRange \cup TooLarge

----------------------------------------------------------------------------
\* asteval.Interpreter, the external expression interpreter, as the engine
\* uses it: a call parses the text, runs it against the symbol table of the
\* instance, and yields the value of the last statement (None for an
\* assignment or a failed run), the errors of this run, and the bindings.

\* The syntax tree of a text (the interpreter's parser, over the texts of
\* the model and the integer literals).
Num(n) == [k |-> "Num", n |-> n]
Name(id) == [k |-> "Name", id |-> id]
Add(l, r) == [k |-> "Add", l |-> l, r |-> r]
Eq(l, r) == [k |-> "Eq", l |-> l, r |-> r]
Call(f, arg) == [k |-> "Call", f |-> f, arg |-> arg]
Assign(id, value) == [k |-> "Assign", id |-> id, value |-> value]
Const(value) == [k |-> "Const", value |-> value]
Neg(operand) == [k |-> "Neg", operand |-> operand]
SyntaxError == [k |-> "SyntaxError"]

parse(text) ==
    CASE text = T_sum -> Add(Num(2), Num(2))
      [] text = T_a_is_5 -> Assign("a", Num(5))
      [] text = T_b_is_a1 -> Assign("b", Add(Name("a"), Num(1)))
      [] text = T_a_eq_5 -> Eq(Name("a"), Num(5))
      [] text = T_abs -> Name("abs")
      [] text = T_abs_is_3 -> Assign("abs", Num(3))
      [] text = T_b_is_abs6 -> Assign("b", Call(Name("abs"), Num(6)))
      [] IsDigits(text) -> Const(IntOf(FALSE, DigitsBytes(text)))
      [] Len(text) > 1 /\ Head(text) = "-" /\ IsDigits(Tail(text)) ->
            Neg(Const(IntOf(FALSE, DigitsBytes(Tail(text)))))
      [] text = T_1e999 -> Const(PyFloat(FALSE, Infinity))
      [] OTHER -> SyntaxError

\* The messages of the interpreter's errors (get_error()[1]).
MsgSyntax == <<"i", "n", "v", "a", "l", "i", "d", " ", "s", "y", "n", "t", "a", "x">>
MsgName == <<"n", "a", "m", "e", " ", "n", "o", "t", " ", "d", "e", "f", "i", "n", "e", "d">>
MsgType == <<"u", "n", "s", "u", "p", "p", "o", "r", "t", "e", "d", " ", "o", "p", "e", "r", "a", "n", "d">>
MsgCall == <<"n", "o", "t", " ", "c", "a", "l", "l", "a", "b", "l", "e">>

\* The symbol table of a new instance: no user variable, the built-ins bound.
NewSymtable == ("abs" :> PyBuiltin(<<"a", "b", "s">>))

IsNumber(value) == value.t \in {"int", "bool"}

\* The value of an expression node, or the error it raises.
RECURSIVE run(_, _)
run(node, table) ==
    CASE node.k = "Num" -> [val |-> PyInt(node.n), err |-> <<>>]
      [] node.k = "Const" -> [val |-> node.value, err |-> <<>>]
      [] node.k = "Neg" ->
            LET operand == run(node.operand, table)
            IN  IF operand.err # <<>> THEN operand
                ELSE IF operand.val.t \in {"int", "bool", "float"}
                     THEN [val |-> Negative(operand.val), err |-> <<>>]
                     ELSE [val |-> None, err |-> <<MsgType>>]
      [] node.k = "Name" ->
            IF node.id \in DOMAIN table
            THEN [val |-> table[node.id], err |-> <<>>]
            ELSE [val |-> None, err |-> <<MsgName>>]
      [] node.k = "Add" ->
            LET l == run(node.l, table)
                r == run(node.r, table)
            IN  IF l.err # <<>> THEN l
                ELSE IF r.err # <<>> THEN r
                ELSE IF IsNumber(l.val) /\ IsNumber(r.val)
                     THEN [val |-> PyInt(l.val.v + r.val.v), err |-> <<>>]
                     ELSE [val |-> None, err |-> <<MsgType>>]
      [] node.k = "Eq" ->
            LET l == run(node.l, table)
                r == run(node.r, table)
            IN  IF l.err # <<>> THEN l
                ELSE IF r.err # <<>> THEN r
                ELSE [val |-> PyBool(IF IsNumber(l.val) /\ IsNumber(r.val)
                                     THEN l.val.v = r.val.v
                                     ELSE l.val = r.val),
                      err |-> <<>>]
      [] node.k = "Call" ->
            LET f == run(node.f, table)
                a == run(node.arg, table)
            IN  IF f.err # <<>> THEN f
                ELSE IF f.val.t # "builtin_function_or_method"
                     THEN [val |-> None, err |-> <<MsgCall>>]
                ELSE IF a.err # <<>> THEN a
                ELSE IF ~IsNumber(a.val) THEN [val |-> None, err |-> <<MsgType>>]
                ELSE [val |-> PyInt(IF a.val.v < 0 THEN -a.val.v ELSE a.val.v),
                      err |-> <<>>]

\* What a parsed statement yields, `value` being the outcome of running its
\* expression: [result, error, symtable].
Statement(node, value, table) ==
    CASE node.k = "SyntaxError" ->
            [result |-> None, error |-> <<MsgSyntax>>, symtable |-> table]
      [] node.k = "Assign" ->
            IF value.err # <<>>
            THEN [result |-> None, error |-> value.err, symtable |-> table]
            ELSE [result |-> None, error |-> <<>>,
                  symtable |-> (node.id :> value.val) @@ table]
      [] OTHER ->
            [result |-> value.val, error |-> value.err, symtable |-> table]

\* Runs the expression of a parsed statement (none when the text did not
\* parse) and yields what the statement yields.
Execute(node, table) ==
    Statement(node,
              CASE node.k = "SyntaxError" -> [val |-> None, err |-> <<>>]
                [] node.k = "Assign" -> run(node.value, table)
                [] OTHER -> run(node, table),
              table)

\* Interpreter.__call__(text, show_errors=False, raise_errors=False) on an
\* instance whose symbol table is `table`: [result, error, symtable].
Interpreter(text, table) == Execute(parse(text), table)

----------------------------------------------------------------------------
\* class Kalkon.  `self` is the record of the object's fields.

Self ==
    [_stack |-> _stack, _type |-> _type, _format |-> _format,
     _status |-> _status, _error |-> _error, _stack_updated |-> _stack_updated,
     symtable |-> symtable, interp_error |-> interp_error]

\* How a method ends: it returns a value, or raises.
Return(self, value) == [self |-> self, ret |-> value, raised |-> FALSE]
Raise(self) == [self |-> self, ret |-> None, raised |-> TRUE]

\* _set_type that also rewrites the history: the raw results are dropped.
_set_type_drops_results(self, value_type) ==
    [self EXCEPT !._type = value_type,
                 !._stack = [i \in 1..Len(self._stack) |->
                                <<self._stack[i][1], None>>]]

_set_type(self, value_type) == [self EXCEPT !._type = value_type]

_set_format(self, system) == [self EXCEPT !._format = system]

clear(self) ==
    Return([self EXCEPT !._stack = <<>>, !._stack_updated = TRUE], None)

\* is_stack_updated without the assignment that clears the flag.
is_stack_updated_keeps(self) ==
    Return(self, PyBool(self._stack_updated))

is_stack_updated(self) ==
    LET stack_updated == self._stack_updated
    IN  Return([self EXCEPT !._stack_updated = FALSE], PyBool(stack_updated))

\* _push with list.append in place of insert(1, ...).
_push_appends(self, expression, result) ==
    IF Len(self._stack) = 0
    THEN Raise(self)
    ELSE Return([self EXCEPT
                    !._stack = <<<<None, None>>>> \o Tail(self._stack)
                               \o <<<<PyStr(expression), result>>>>,
                    !._stack_updated = TRUE],
                None)

\* self._stack[0] = (None, None) raises IndexError on an empty list;
\* list.insert(1, x) puts x behind the first element.
_push(self, expression, result) ==
    IF Len(self._stack) = 0
    THEN Raise(self)
    ELSE Return([self EXCEPT
                    !._stack = <<<<None, None>>, <<PyStr(expression), result>>>>
                               \o Tail(self._stack),
                    !._stack_updated = TRUE],
                None)

\* pop without its last two lines: the new head keeps its content.
pop_keeps_head(self) ==
    LET expression == IF Len(self._stack) > 1 THEN self._stack[2][1] ELSE PyStr(<<>>)
        s1 == IF Len(self._stack) > 0
              THEN [self EXCEPT !._stack = Tail(self._stack), !._stack_updated = TRUE]
              ELSE self
    IN  Return(s1, expression)

pop(self) ==
    LET expression == IF Len(self._stack) > 1 THEN self._stack[2][1] ELSE PyStr(<<>>)
        s1 == IF Len(self._stack) > 0
              THEN [self EXCEPT !._stack = Tail(self._stack), !._stack_updated = TRUE]
              ELSE self
        s2 == IF Len(s1._stack) > 0
              THEN [s1 EXCEPT !._stack[1] = <<None, None>>]
              ELSE s1
    IN  Return(s2, expression)

\* _set with list.insert(0, ...) in place of the assignment to slot 0.
_set_inserts(self, expression, result) ==
    Return([self EXCEPT
               !._stack = <<<<expression, result>>>> \o self._stack,
               !._stack_updated = TRUE],
           None)

\* expression and result are Python values here: the code passes None too.
_set(self, expression, result) ==
    Return([self EXCEPT
               !._stack = IF Len(self._stack) = 0
                          THEN <<<<expression, result>>>>
                          ELSE [self._stack EXCEPT ![1] = <<expression, result>>],
               !._stack_updated = TRUE],
           None)

\* The command table: each entry is the call it is bound to.
_cmd_dict ==
    (T_dec :> [f |-> "_set_format", arg |-> "DECIMAL"]) @@
    (T_hex :> [f |-> "_set_format", arg |-> "HEXADECIMAL"]) @@
    (T_bin :> [f |-> "_set_format", arg |-> "BINARY"]) @@
    (T_f32 :> [f |-> "_set_type", arg |-> "F32"]) @@
    (T_i8 :> [f |-> "_set_type", arg |-> "INT8"]) @@
    (T_i16 :> [f |-> "_set_type", arg |-> "INT16"]) @@
    (T_i32 :> [f |-> "_set_type", arg |-> "INT32"]) @@
    (T_i64 :> [f |-> "_set_type", arg |-> "INT64"]) @@
    (T_u8 :> [f |-> "_set_type", arg |-> "UINT8"]) @@
    (T_u16 :> [f |-> "_set_type", arg |-> "UINT16"]) @@
    (T_u32 :> [f |-> "_set_type", arg |-> "UINT32"]) @@
    (T_u64 :> [f |-> "_set_type", arg |-> "UINT64"]) @@
    (T_clear :> [f |-> "clear", arg |-> ""])

\* _cmd_dict[expression]()
RunCommand(self, bound) ==
    CASE bound.f = "_set_format" -> _set_format(self, bound.arg)
      [] bound.f = "_set_type" -> _set_type(self, bound.arg)
      [] bound.f = "clear" -> clear(self).self

StatusCmd == <<"C", "M", "D", ":", " ">>
StatusUnknown == <<"U", "n", "k", "n", "o", "w", "n", " ",
                   "c", "o", "m", "m", "a", "n", "d", " ", "'">>
StatusSet == <<"S", "e", "t", " ">>

\* _process_command without `and enter`: a previewed command is applied.
_process_command_ignores_enter(self, expression, enter) ==
    IF ~startswith(expression, <<":">>)
    THEN Return(self, False)
    ELSE IF expression \in DOMAIN _cmd_dict
    THEN Return(RunCommand(self, _cmd_dict[expression]), True)
    ELSE Return([self EXCEPT !._status = StatusUnknown \o expression \o <<"'">>], True)

\* _process_command ending in `return False`: an unknown command goes on
\* to the interpreter.
_process_command_unknown_unhandled(self, expression, enter) ==
    IF ~startswith(expression, <<":">>)
    THEN Return(self, False)
    ELSE IF expression \in DOMAIN _cmd_dict /\ enter
    THEN Return(RunCommand(self, _cmd_dict[expression]), True)
    ELSE IF expression \in DOMAIN _cmd_dict
    THEN Return([self EXCEPT !._status = StatusCmd \o expression], True)
    ELSE Return([self EXCEPT !._status = StatusUnknown \o expression \o <<"'">>], False)

_process_command(self, expression, enter) ==
    IF ~startswith(expression, <<":">>)
    THEN Return(self, False)
    ELSE IF expression \in DOMAIN _cmd_dict /\ enter
    THEN Return(RunCommand(self, _cmd_dict[expression]), True)
    ELSE IF expression \in DOMAIN _cmd_dict
    THEN Return([self EXCEPT !._status = StatusCmd \o expression], True)
    ELSE Return([self EXCEPT !._status = StatusUnknown \o expression \o <<"'">>], True)

\* The validator is a new Interpreter on every call: its bindings are the
\* initial ones, whatever the live interpreter has bound.
_validate_set_variable(expression) ==
    IF contains(expression, <<"=", "=">>)
    THEN FALSE
    ELSE IF ~contains(expression, <<"=">>)
    THEN FALSE
    ELSE LET validator == Interpreter(expression, NewSymtable)
         IN  IF Len(validator.error) > 0 THEN FALSE ELSE TRUE

\* self._interpreter(expression, show_errors=False, raise_errors=False)
live_interpreter(self, expression) ==
    LET out == Interpreter(expression, self.symtable)
    IN  Return([self EXCEPT !.symtable = out.symtable, !.interp_error = out.error],
               out.result)

BuiltinMark == <<"<", "b", "u", "i", "l", "t", "-", "i", "n", " ",
                 "f", "u", "n", "c", "t", "i", "o", "n">>

evaluate(self, expression, enter) ==
    LET s1 == [self EXCEPT !._status = <<>>, !._error = FALSE]
    IN  IF expression = <<>>
        THEN Return(_set(s1, None, None).self, False)
        ELSE
        LET cmd == _process_command(s1, expression, enter)
        IN  IF cmd.ret = True
            THEN IF cmd.self._status # <<>>
                 THEN Return(cmd.self, False)
                 ELSE IF enter
                 THEN Return(_set(cmd.self, None, None).self, True)
                 ELSE Return(cmd.self, False)
            ELSE
            IF _validate_set_variable(expression)
            THEN LET s2 == [s1 EXCEPT !._status = StatusSet \o expression]
                 IN  IF enter
                     THEN Return(live_interpreter(_set(s2, None, None).self,
                                                  expression).self,
                                 True)
                     ELSE Return(s2, False)
            ELSE
            LET run_ == live_interpreter(s1, expression)
                result == run_.ret
                s3 == run_.self
            IN  IF result # None /\ contains(str(result), BuiltinMark)
                THEN Return(s3, False)
                ELSE IF Len(s3.interp_error) = 0
                THEN IF enter
                     THEN LET pushed == _push(s3, expression, result)
                          IN  IF pushed.raised THEN pushed
                              ELSE Return(pushed.self, True)
                     ELSE Return(_set(s3, PyStr(expression), result).self, False)
                ELSE Return([s3 EXCEPT !._status = s3.interp_error[1],
                                       !._error = TRUE],
                            False)

----------------------------------------------------------------------------
\* class Kalkon: the numeric codec and the accessors of the stack.

_is_signed_type(self) ==
    IF self._type \in {"INT8", "INT16", "INT32", "INT64"} THEN TRUE ELSE FALSE

\* int(value) stands before the try block: what it raises leaves the method.
_get_typed_result(self, value) ==
    IF self._type = "F32"
    THEN Return(self, value)
    ELSE LET signed == _is_signed_type(self)
             int_value == int(value)
             value_bytes == to_bytes(int_value.ret, 8)
             width == CASE self._type \in {"INT8", "UINT8"} -> 1
                        [] self._type \in {"INT16", "UINT16"} -> 2
                        [] self._type \in {"INT32", "UINT32"} -> 4
                        [] self._type \in {"INT64", "UINT64"} -> 8
         IN  IF int_value.raised THEN Raise(self)
             ELSE IF value_bytes.raised THEN Return(self, None)
             ELSE Return(self, from_bytes(SubSeq(value_bytes.ret, 1, width), signed))

\* The outcomes of _get_formatted_result: more than one where struct.pack
\* has more than one.
_get_formatted_result(self, value) ==
    IF value = None
    THEN {Return(self, PyStr(<<>>))}
    ELSE IF self._format = "BINARY"
    THEN IF self._type = "F32"
         THEN {IF value_bytes.raised THEN Raise(self)
               ELSE Return(self, PyStr(bin(from_bytes(SubSeq(value_bytes.ret, 1, 4),
                                                      FALSE)))) :
               value_bytes \in struct_pack_f(value)}
         ELSE LET negative == IF value.v < 0 THEN <<"-">> ELSE <<>>
              IN  {Return(self, PyStr(negative \o <<"0", "b">>
                                      \o format_b(int(abs(value)).ret)))}
    ELSE IF self._format = "HEXADECIMAL"
    THEN IF self._type = "F32"
         THEN {IF value_bytes.raised THEN Raise(self)
               ELSE Return(self, PyStr(hex(from_bytes(SubSeq(value_bytes.ret, 1, 4),
                                                      FALSE)))) :
               value_bytes \in struct_pack_f(value)}
         ELSE LET negative == IF value.v < 0 THEN <<"-">> ELSE <<>>
              IN  {Return(self, PyStr(negative \o <<"0", "x">>
                                      \o format_x(int(abs(value)).ret)))}
    ELSE IF self._type = "F32"
    THEN {IF value_bytes.raised THEN Raise(self)
          ELSE Return(self, PyStr(str(struct_unpack_f(value_bytes.ret)))) :
          value_bytes \in struct_pack_f(value)}
    ELSE {Return(self, PyStr(str(value)))}

\* The outcomes of get_result(index).
get_result(self, index) ==
    IF index >= Len(self._stack)
    THEN {Return(self, PyStr(<<>>))}
    ELSE LET value == self._stack[index + 1][2]
             typed == _get_typed_result(self, value)
         IN  IF value = None THEN {Return(self, PyStr(<<>>))}
             ELSE IF typed.raised THEN {Raise(self)}
             ELSE _get_formatted_result(self, typed.ret)

\* get_expression returns the stored expression as it is: None for a slot
\* that holds (None, None).
get_expression(self, index) ==
    IF index >= Len(self._stack)
    THEN Return(self, PyStr(<<>>))
    ELSE Return(self, self._stack[index + 1][1])

----------------------------------------------------------------------------
\* The state machine: one action per public operation of the engine.

\* The object after `out`, the outcome of the call `c`.
Becomes(out, c) ==
    /\ _stack' = out.self._stack
    /\ _type' = out.self._type
    /\ _format' = out.self._format
    /\ _status' = out.self._status
    /\ _error' = out.self._error
    /\ _stack_updated' = out.self._stack_updated
    /\ symtable' = out.self.symtable
    /\ interp_error' = out.self.interp_error
    /\ call' = c
    /\ ret' = out.ret
    /\ raised' = out.raised

Op(name, expression, enter) == [op |-> name, expression |-> expression, enter |-> enter]

\* Kalkon(): __init__ sets the fields and calls clear().
Init ==
    /\ _stack = <<>>
    /\ _type = "INT64"
    /\ _format = "DECIMAL"
    /\ _status = <<>>
    /\ _error = FALSE
    /\ _stack_updated = TRUE
    /\ symtable = NewSymtable
    /\ interp_error = <<>>
    /\ call = Op("__init__", <<>>, FALSE)
    /\ ret = None
    /\ raised = FALSE

Call_evaluate(expression, enter) ==
    LET out == evaluate(Self, expression, enter)
    IN  /\ Len(out.self._stack) <= MaxStack
        /\ Becomes(out, Op("evaluate", expression, enter))

Call_pop == Becomes(pop(Self), Op("pop", <<>>, FALSE))

Call_clear == Becomes(clear(Self), Op("clear", <<>>, FALSE))

Call_is_stack_updated == Becomes(is_stack_updated(Self), Op("is_stack_updated", <<>>, FALSE))

NextOn(inputs) ==
    \/ \E expression \in inputs, enter \in BOOLEAN : Call_evaluate(expression, enter)
    \/ Call_pop
    \/ Call_clear
    \/ Call_is_stack_updated

Next == NextOn(Inputs)

NextCmd == NextOn(CmdInputs)

Spec == Init /\ [][Next]_vars

SpecCmd == Init /\ [][NextCmd]_vars

\* The stack is grown past the declared depth with two expressions.
DepthInputs == {T_sum, T_300, T_empty}

Call_evaluate_deep(expression, enter) ==
    LET out == evaluate(Self, expression, enter)
    IN  /\ Len(out.self._stack) <= MaxDepth
        /\ Becomes(out, Op("evaluate", expression, enter))

NextDepth ==
    \/ \E expression \in DepthInputs, enter \in BOOLEAN :
          Call_evaluate_deep(expression, enter)
    \/ Call_pop
    \/ Call_clear

SpecDepth == Init /\ [][NextDepth]_vars

\* The codec and the accessors are exercised on an object that has one
\* number committed: Kalkon(), then evaluate(e) as the text is typed and
\* evaluate(e, True) on enter.
Kalkon ==
    [_stack |-> <<>>, _type |-> "INT64", _format |-> "DECIMAL",
     _status |-> <<>>, _error |-> FALSE, _stack_updated |-> TRUE,
     symtable |-> NewSymtable, interp_error |-> <<>>]

InitNum ==
    \E expression \in NumInputs :
        \E out \in {evaluate(evaluate(Kalkon, expression, FALSE).self,
                                expression, TRUE)} :
            /\ _stack = out.self._stack
            /\ _type = out.self._type
            /\ _format = out.self._format
            /\ _status = out.self._status
            /\ _error = out.self._error
            /\ _stack_updated = out.self._stack_updated
            /\ symtable = out.self.symtable
            /\ interp_error = out.self.interp_error
            /\ call = Op("evaluate", expression, TRUE)
            /\ ret = out.ret
            /\ raised = out.raised

\* An accessor called with an index.
OpAt(name, index) ==
    [op |-> name, expression |-> <<>>, enter |-> FALSE, index |-> index]

Call_get_result(index) ==
    \E out \in get_result(Self, index) : Becomes(out, OpAt("get_result", index))

Call_get_expression(index) ==
    Becomes(get_expression(Self, index), OpAt("get_expression", index))

\* The indexes the accessors are called with: the slots and one past them.
Indexes == 0..2

NextNum ==
    \/ \E expression \in Commands : Call_evaluate(expression, TRUE)
    \/ \E index \in Indexes : Call_get_result(index)
    \/ \E index \in Indexes : Call_get_expression(index)
    \/ Call_pop

SpecNum == InitNum /\ [][NextNum]_vars

----------------------------------------------------------------------------
\* Properties.  A step of the engine is one call: `call'` names it, the
\* unprimed variables are the object before it and the primed ones after.

\* The committed history: the slots at index >= 1.
Committed(stack) == SubSeq(stack, 2, Len(stack))

Empty == <<None, None>>

IsEvaluate(c) == c.op = "evaluate"

\* evaluate hands the text to the live interpreter: it is no empty text and
\* no command, and the Assignment Detector, when it matches, is committing.
ReachesLive(expression, enter) ==
    /\ expression # <<>>
    /\ ~startswith(expression, <<":">>)
    /\ (_validate_set_variable(expression) => enter)

\* A general expression the live interpreter takes without error: no
\* assignment statement, and its value is no function.
ValidExpression(expression) ==
    /\ expression # <<>>
    /\ ~startswith(expression, <<":">>)
    /\ parse(expression).k \notin {"Assign", "SyntaxError"}
    /\ Interpreter(expression, symtable).error = <<>>
    /\ Interpreter(expression, symtable).result.t \in {"int", "bool"}

\* C1: committing a valid general expression e returns committed, puts
\* (e, result) at index 1 with the committed slots behind it, leaves slot 0
\* (None, None) and sets stack_updated; is_stack_updated() returns the flag
\* and clears it.
C1_CommitPushes ==
    [][/\ (IsEvaluate(call') /\ call'.enter /\ ValidExpression(call'.expression))
          => /\ ~raised'
             /\ ret' = True
             /\ _stack' = <<Empty,
                            <<PyStr(call'.expression),
                              Interpreter(call'.expression, symtable).result>>>>
                          \o Committed(_stack)
             /\ _stack_updated'
       /\ (call'.op = "is_stack_updated")
          => /\ ret' = PyBool(_stack_updated)
             /\ ~_stack_updated']_vars

\* C2: no call of evaluate raises.
C2_EvaluateNeverRaises == IsEvaluate(call) => ~raised

\* C3: an evaluate that previews, or that returns not committed, leaves the
\* bindings of the live interpreter as they were.
C3_BindingsChangeOnlyOnCommit ==
    [][(IsEvaluate(call') /\ ~raised' /\ (~call'.enter \/ ret' = False))
       => symtable' = symtable]_vars

\* C4: a preview returns not committed and leaves the committed slots, the
\* ValueType and the ValueFormat as they were.
C4_PreviewFrame ==
    [][(IsEvaluate(call') /\ ~call'.enter)
       => /\ ~raised'
          /\ ret' = False
          /\ Committed(_stack') = Committed(_stack)
          /\ _type' = _type
          /\ _format' = _format]_vars

\* A preview of an expression over two committed entries, in a mode other
\* than the initial one.
C4_Witness ==
    /\ call = Op("evaluate", T_sum, FALSE)
    /\ Len(_stack) = 3
    /\ _stack[1] = <<PyStr(T_sum), PyInt(4)>>
    /\ _type = "UINT8"
    /\ _format = "BINARY"

\* The variable an assignment statement binds.
Target(expression) == parse(expression).id

\* C5: when the Assignment Detector matches x, a preview sets status
\* "Set <x>", returns not committed and leaves bindings and stack alone; a
\* commit sets that status, empties slot 0, binds the variable in the live
\* interpreter, creates no committed slot and returns committed.
C5_Assignment ==
    [][(IsEvaluate(call') /\ _validate_set_variable(call'.expression))
       => /\ ~raised'
          /\ _status' = StatusSet \o call'.expression
          /\ IF call'.enter
             THEN /\ ret' = True
                  /\ _stack'[1] = Empty
                  /\ Committed(_stack') = Committed(_stack)
                  /\ Target(call'.expression) \in DOMAIN symtable'
             ELSE /\ ret' = False
                  /\ symtable' = symtable
                  /\ _stack' = _stack]_vars

\* An assignment statement: <identifier> = <expr>, with no "==".
IsAssignment(expression) ==
    /\ parse(expression).k = "Assign"
    /\ ~contains(expression, <<"=", "=">>)

\* C6: committing an assignment statement leaves the committed slots as
\* they were, whatever the live interpreter has bound.
C6_AssignmentNeverPushed ==
    [][(IsEvaluate(call') /\ call'.enter /\ IsAssignment(call'.expression))
       => Committed(_stack') = Committed(_stack)]_vars

\* The fixed command table as the specification lists it: the field a token
\* selects and the value it selects.
Commanded ==
    (T_dec :> <<"format", "DECIMAL">>) @@ (T_hex :> <<"format", "HEXADECIMAL">>) @@
    (T_bin :> <<"format", "BINARY">>) @@ (T_f32 :> <<"type", "F32">>) @@
    (T_i8 :> <<"type", "INT8">>) @@ (T_i16 :> <<"type", "INT16">>) @@
    (T_i32 :> <<"type", "INT32">>) @@ (T_i64 :> <<"type", "INT64">>) @@
    (T_u8 :> <<"type", "UINT8">>) @@ (T_u16 :> <<"type", "UINT16">>) @@
    (T_u32 :> <<"type", "UINT32">>) @@ (T_u64 :> <<"type", "UINT64">>) @@
    (T_clear :> <<"clear", "">>)

\* C7: committing a command of the table applies it, returns committed with
\* empty status, empties slot 0 and creates no history entry; previewing it
\* changes neither mode nor stack and returns not committed with status
\* "CMD: <c>".
C7_Commands ==
    [][(IsEvaluate(call') /\ call'.expression \in DOMAIN Commanded)
       => LET c == call'.expression
              field == Commanded[c][1]
              value == Commanded[c][2]
          IN  /\ ~raised'
              /\ IF call'.enter
                 THEN /\ ret' = True
                      /\ _status' = <<>>
                      /\ _stack'[1] = Empty
                      /\ _format' = IF field = "format" THEN value ELSE _format
                      /\ _type' = IF field = "type" THEN value ELSE _type
                      /\ IF field = "clear"
                         THEN _stack' = <<Empty>>
                         ELSE Committed(_stack') = Committed(_stack)
                 ELSE /\ ret' = False
                      /\ _status' = StatusCmd \o c
                      /\ _type' = _type
                      /\ _format' = _format
                      /\ _stack' = _stack]_vars

\* A committed type command over a history of two entries.
C7_Witness ==
    /\ call = Op("evaluate", T_u16, TRUE)
    /\ _type = "UINT16"
    /\ _format = "HEXADECIMAL"
    /\ Len(_stack) = 3
    /\ ret = True

\* C8: a text that starts with ':' and is no command returns not committed
\* with status "Unknown command '<text>'" whatever enter is, and changes
\* nothing else; the error flag is false.
C8_UnknownCommand ==
    [][(/\ IsEvaluate(call')
        /\ startswith(call'.expression, <<":">>)
        /\ call'.expression \notin DOMAIN Commanded)
       => /\ ~raised'
          /\ ret' = False
          /\ _status' = StatusUnknown \o call'.expression \o <<"'">>
          /\ ~_error'
          /\ _type' = _type
          /\ _format' = _format
          /\ _stack' = _stack
          /\ _stack_updated' = _stack_updated
          /\ symtable' = symtable]_vars

\* An unknown command was committed while slot 0 held a preview, a
\* committed entry existed and the updated flag had been consumed.
C8_Witness ==
    /\ call = Op("evaluate", T_bogus, TRUE)
    /\ Len(_stack) >= 2
    /\ _stack[1] = <<PyStr(T_sum), PyInt(4)>>
    /\ ~_stack_updated
    /\ _type = "INT8"
    /\ symtable # NewSymtable

\* C9: when the live interpreter reports an error on the expression, for
\* either value of enter, evaluate sets the error flag, sets the status to
\* the first error message, returns not committed and leaves the committed
\* slots as they were.
C9_ErrorNeverCommitted ==
    [][(/\ IsEvaluate(call')
        /\ ReachesLive(call'.expression, call'.enter)
        /\ Interpreter(call'.expression, symtable).error # <<>>)
       => /\ ~raised'
          /\ _error'
          /\ _status' = Interpreter(call'.expression, symtable).error[1]
          /\ ret' = False
          /\ Committed(_stack') = Committed(_stack)]_vars

\* C10: pop() on [preview, A, B, ...] returns the expression of A, leaves
\* [(None, None), B, ...] and sets stack_updated; pop() on a stack with no
\* committed entry returns the empty string; pop() never raises.
C10_Pop ==
    [][(call'.op = "pop")
       => /\ ~raised'
          /\ IF Len(_stack) >= 2
             THEN /\ ret' = _stack[2][1]
                  /\ ret'.t = "str"
                  /\ _stack' = <<Empty>> \o SubSeq(_stack, 3, Len(_stack))
                  /\ _stack_updated'
             ELSE /\ ret' = PyStr(<<>>)
                  /\ _stack' = <<>>]_vars

\* pop() returned the expression of the entry it removed, and an older
\* entry is now at index 1.
C10_Witness ==
    /\ call.op = "pop"
    /\ ret = PyStr(T_a_eq_5)
    /\ Len(_stack) = 2
    /\ _stack[1] = Empty
    /\ _stack[2] = <<PyStr(T_sum), PyInt(4)>>

\* An evaluate that calls none of _push, _set, pop and clear: a previewed
\* or unknown command, a previewed assignment, a failed evaluation.
TouchesNoSlot(c) ==
    /\ IsEvaluate(c)
    /\ c.expression # <<>>
    /\ \/ startswith(c.expression, <<":">>)
          /\ ~(c.expression \in DOMAIN Commanded /\ c.enter)
       \/ ~startswith(c.expression, <<":">>)
          /\ _validate_set_variable(c.expression)
          /\ ~c.enter
       \/ ~startswith(c.expression, <<":">>)
          /\ ~_validate_set_variable(c.expression)
          /\ Interpreter(c.expression, symtable).error # <<>>

\* C11: is_stack_updated() returns the flag and clears it, so a call right
\* after it returns false; the flag stays as it is across an evaluate that
\* calls no push, set, pop or clear and across a pop() of an empty stack;
\* every call that changes the stack, and every clear(), sets it.
C11_ReadClearsFlag ==
    [][/\ (call'.op = "is_stack_updated")
          => /\ ret' = PyBool(_stack_updated)
             /\ ~_stack_updated'
             /\ _stack' = _stack
             /\ is_stack_updated(Self').ret = False
       /\ (call'.op # "is_stack_updated")
          => /\ (_stack' # _stack) => _stack_updated'
             /\ (call'.op = "clear") => _stack_updated'
             /\ (TouchesNoSlot(call') \/ (call'.op = "pop" /\ _stack = <<>>))
                => /\ _stack_updated' = _stack_updated
                   /\ _stack' = _stack]_vars

\* is_stack_updated() returned true after a commit and cleared the flag.
C11_Witness ==
    /\ call.op = "is_stack_updated"
    /\ ret = True
    /\ ~_stack_updated
    /\ Len(_stack) = 3
    /\ _stack[2] = <<PyStr(T_sum), PyInt(4)>>

IsAccessor(c) == c.op \in {"get_expression", "get_result"}

\* The slot an accessor call reads is past the end of the stack or empty.
\* The accessors change no field, so the stack after the call is the stack
\* that was read.
ReadsNothing(c) ==
    \/ c.index >= Len(_stack)
    \/ _stack[c.index + 1] = Empty

\* C12: get_expression(i) and get_result(i) never raise and return a text;
\* for an index past the end of the stack and for an empty slot they return
\* the empty string.
C12_AccessorsReturnText ==
    IsAccessor(call)
    => /\ ~raised
       /\ ret.t = "str"
       /\ ReadsNothing(call) => ret = PyStr(<<>>)

\* The call reads a slot whose raw result is one of the numbers that do
\* not fit an 8-byte signed container.
ReadsTooLarge(c) ==
    /\ c.op = "get_result"
    /\ c.index < Len(_stack)
    /\ _stack[c.index + 1][1] \in {PyStr(expression) : expression \in TooLarge}

\* C13: under every ValueType and ValueFormat, get_result on a slot whose
\* raw result does not fit an 8-byte signed container returns the empty
\* string, does not raise, and leaves error flag and status as they were.
C13_OverflowSilent ==
    [][ReadsTooLarge(call')
       => /\ ~raised'
          /\ ret' = PyStr(<<>>)
          /\ _error' = _error
          /\ _status' = _status]_vars

\* get_result(1) was called on the object that holds one committed number.
ReadsNumber(c) ==
    /\ c.op = "get_result"
    /\ c.index = 1
    /\ Len(_stack) = 2

\* For each number of InRange and each integer type of w bytes, the
\* decimal text of the number reduced modulo 2^(8w): into [0, 2^(8w)) for
\* an unsigned type, into [-2^(8w-1), 2^(8w-1)) for a signed one.
Wrapped ==
    (T_300 :>
        [INT8 |-> <<"4", "4">>,
         INT16 |-> <<"3", "0", "0">>,
         INT32 |-> <<"3", "0", "0">>,
         INT64 |-> <<"3", "0", "0">>,
         UINT8 |-> <<"4", "4">>,
         UINT16 |-> <<"3", "0", "0">>,
         UINT32 |-> <<"3", "0", "0">>,
         UINT64 |-> <<"3", "0", "0">>]) @@
    (T_minus_1 :>
        [INT8 |-> <<"-", "1">>,
         INT16 |-> <<"-", "1">>,
         INT32 |-> <<"-", "1">>,
         INT64 |-> <<"-", "1">>,
         UINT8 |-> <<"2", "5", "5">>,
         UINT16 |-> <<"6", "5", "5", "3", "5">>,
         UINT32 |-> <<"4", "2", "9", "4", "9", "6", "7", "2", "9", "5">>,
         UINT64 |-> <<"1", "8", "4", "4", "6", "7", "4", "4", "0", "7", "3", "7", "0", "9", "5", "5", "1", "6", "1", "5">>]) @@
    (T_128 :>
        [INT8 |-> <<"-", "1", "2", "8">>,
         INT16 |-> <<"1", "2", "8">>,
         INT32 |-> <<"1", "2", "8">>,
         INT64 |-> <<"1", "2", "8">>,
         UINT8 |-> <<"1", "2", "8">>,
         UINT16 |-> <<"1", "2", "8">>,
         UINT32 |-> <<"1", "2", "8">>,
         UINT64 |-> <<"1", "2", "8">>]) @@
    (T_minus_129 :>
        [INT8 |-> <<"1", "2", "7">>,
         INT16 |-> <<"-", "1", "2", "9">>,
         INT32 |-> <<"-", "1", "2", "9">>,
         INT64 |-> <<"-", "1", "2", "9">>,
         UINT8 |-> <<"1", "2", "7">>,
         UINT16 |-> <<"6", "5", "4", "0", "7">>,
         UINT32 |-> <<"4", "2", "9", "4", "9", "6", "7", "1", "6", "7">>,
         UINT64 |-> <<"1", "8", "4", "4", "6", "7", "4", "4", "0", "7", "3", "7", "0", "9", "5", "5", "1", "4", "8", "7">>]) @@
    (T_65535 :>
        [INT8 |-> <<"-", "1">>,
         INT16 |-> <<"-", "1">>,
         INT32 |-> <<"6", "5", "5", "3", "5">>,
         INT64 |-> <<"6", "5", "5", "3", "5">>,
         UINT8 |-> <<"2", "5", "5">>,
         UINT16 |-> <<"6", "5", "5", "3", "5">>,
         UINT32 |-> <<"6", "5", "5", "3", "5">>,
         UINT64 |-> <<"6", "5", "5", "3", "5">>]) @@
    (T_2p31 :>
        [INT8 |-> <<"0">>,
         INT16 |-> <<"0">>,
         INT32 |-> <<"-", "2", "1", "4", "7", "4", "8", "3", "6", "4", "8">>,
         INT64 |-> <<"2", "1", "4", "7", "4", "8", "3", "6", "4", "8">>,
         UINT8 |-> <<"0">>,
         UINT16 |-> <<"0">>,
         UINT32 |-> <<"2", "1", "4", "7", "4", "8", "3", "6", "4", "8">>,
         UINT64 |-> <<"2", "1", "4", "7", "4", "8", "3", "6", "4", "8">>]) @@
    (T_2p32_5 :>
        [INT8 |-> <<"5">>,
         INT16 |-> <<"5">>,
         INT32 |-> <<"5">>,
         INT64 |-> <<"4", "2", "9", "4", "9", "6", "7", "3", "0", "1">>,
         UINT8 |-> <<"5">>,
         UINT16 |-> <<"5">>,
         UINT32 |-> <<"5">>,
         UINT64 |-> <<"4", "2", "9", "4", "9", "6", "7", "3", "0", "1">>]) @@
    (T_int64_max :>
        [INT8 |-> <<"-", "1">>,
         INT16 |-> <<"-", "1">>,
         INT32 |-> <<"-", "1">>,
         INT64 |-> <<"9", "2", "2", "3", "3", "7", "2", "0", "3", "6", "8", "5", "4", "7", "7", "5", "8", "0", "7">>,
         UINT8 |-> <<"2", "5", "5">>,
         UINT16 |-> <<"6", "5", "5", "3", "5">>,
         UINT32 |-> <<"4", "2", "9", "4", "9", "6", "7", "2", "9", "5">>,
         UINT64 |-> <<"9", "2", "2", "3", "3", "7", "2", "0", "3", "6", "8", "5", "4", "7", "7", "5", "8", "0", "7">>]) @@
    (T_int64_min :>
        [INT8 |-> <<"0">>,
         INT16 |-> <<"0">>,
         INT32 |-> <<"0">>,
         INT64 |-> <<"-", "9", "2", "2", "3", "3", "7", "2", "0", "3", "6", "8", "5", "4", "7", "7", "5", "8", "0", "8">>,
         UINT8 |-> <<"0">>,
         UINT16 |-> <<"0">>,
         UINT32 |-> <<"0">>,
         UINT64 |-> <<"9", "2", "2", "3", "3", "7", "2", "0", "3", "6", "8", "5", "4", "7", "7", "5", "8", "0", "8">>])

\* C14: under an integer ValueType of w bytes and the DECIMAL format,
\* get_result of a raw result v in [-2^63, 2^63) is the decimal text of v
\* reduced modulo 2^(8w) into the range of the type.
C14_DecimalWraps ==
    (/\ ReadsNumber(call)
     /\ _stack[2][1].s \in InRange
     /\ _type # "F32"
     /\ _format = "DECIMAL")
    => /\ ~raised
       /\ ret = PyStr(Wrapped[_stack[2][1].s][_type])

\* 300 read under UINT8 gave "44".
C14_Witness ==
    /\ ReadsNumber(call)
    /\ _stack[2][1] = PyStr(T_300)
    /\ _type = "UINT8"
    /\ _format = "DECIMAL"
    /\ ret = PyStr(<<"4", "4">>)

\* Reading a rendering back: the sign and the bits of the magnitude, most
\* significant first, of the number a text denotes in base 10, 16 or 2.
HexChars == <<"0", "1", "2", "3", "4", "5", "6", "7",
              "8", "9", "a", "b", "c", "d", "e", "f">>

DigitOf(c) == CHOOSE d \in 0..15 : HexChars[d + 1] = c

IsNumeral(text, base) ==
    /\ text # <<>>
    /\ \A i \in 1..Len(text) : \E d \in 0..(base - 1) : HexChars[d + 1] = text[i]

\* Half of a decimal numeral (digits as numbers), dropping the remainder.
RECURSIVE HalfOf(_, _)
HalfOf(digits, carry) ==
    IF digits = <<>>
    THEN <<>>
    ELSE LET cur == carry * 10 + Head(digits)
         IN  <<cur \div 2>> \o HalfOf(Tail(digits), cur % 2)

RECURSIVE DecimalBits(_)
DecimalBits(digits) ==
    IF \A i \in 1..Len(digits) : digits[i] = 0
    THEN <<>>
    ELSE DecimalBits(HalfOf(digits, 0)) \o <<digits[Len(digits)] % 2>>

RECURSIVE DropZeros(_)
DropZeros(bits) ==
    IF bits # <<>> /\ Head(bits) = 0 THEN DropZeros(Tail(bits)) ELSE bits

RECURSIVE HexBits(_)
HexBits(text) ==
    IF text = <<>>
    THEN <<>>
    ELSE LET d == DigitOf(Head(text))
         IN  <<d \div 8, (d \div 4) % 2, (d \div 2) % 2, d % 2>> \o HexBits(Tail(text))

\* The text without its sign, and without the two characters of a prefix.
Unsigned(text) == IF text # <<>> /\ Head(text) = "-" THEN Tail(text) ELSE text
Body(text) == SubSeq(Unsigned(text), 3, Len(Unsigned(text)))

ReadBack(text, format) ==
    [negative |-> text # <<>> /\ Head(text) = "-",
     bits |-> CASE format = "DECIMAL" ->
                     DecimalBits([i \in 1..Len(Unsigned(text)) |->
                                     DigitOf(Unsigned(text)[i])])
                [] format = "HEXADECIMAL" -> DropZeros(HexBits(Body(text)))
                [] format = "BINARY" ->
                     DropZeros([i \in 1..Len(Body(text)) |-> DigitOf(Body(text)[i])])]

\* An optional '-', the prefix of the format, and a numeral in its base.
WellFormed(text, format) ==
    CASE format = "DECIMAL" -> IsNumeral(Unsigned(text), 10)
      [] format = "HEXADECIMAL" ->
            startswith(Unsigned(text), <<"0", "x">>) /\ IsNumeral(Body(text), 16)
      [] format = "BINARY" ->
            startswith(Unsigned(text), <<"0", "b">>) /\ IsNumeral(Body(text), 2)

\* What get_result(1) gives for the same object under the DECIMAL format.
DecimalOf(self) ==
    (CHOOSE out \in get_result([self EXCEPT !._format = "DECIMAL"], 1) : TRUE).ret.s

\* C15: under an integer ValueType, for a raw result in [-2^63, 2^63), the
\* HEXADECIMAL and BINARY renderings are an optional '-', the prefix 0x or
\* 0b and the magnitude of the integer that DECIMAL renders; each of the
\* three renderings reads back as that integer; under an unsigned type no
\* rendering carries a '-'.
C15_RadixRenderings ==
    (/\ ReadsNumber(call)
     /\ _stack[2][1].s \in InRange
     /\ _type # "F32")
    => /\ ~raised
       /\ WellFormed(ret.s, _format)
       /\ ReadBack(ret.s, _format) = ReadBack(DecimalOf(Self), "DECIMAL")
       /\ ReadBack(DecimalOf(Self), "DECIMAL")
             = ReadBack(Wrapped[_stack[2][1].s][_type], "DECIMAL")
       /\ (_type \in {"UINT8", "UINT16", "UINT32", "UINT64"}) => ~contains(ret.s, <<"-">>)

\* -1 read under INT8 and HEXADECIMAL gave "-0x1".
C15_Witness ==
    /\ ReadsNumber(call)
    /\ _stack[2][1] = PyStr(T_minus_1)
    /\ _type = "INT8"
    /\ _format = "HEXADECIMAL"
    /\ ret = PyStr(<<"-", "0", "x", "1">>)

\* C16: the history stack never holds more than STACK_DEPTH slots (a push
\* beyond the depth evicts the oldest entry).
C16_BoundedDepth == Len(_stack) <= STACK_DEPTH

\* The step is an evaluate(e, enter=true) that commits the expression e to
\* the history: e went down the general-expression path (it is no command
\* and no assignment the detector matched) and evaluate returned committed.
CommitsExpression(c, returned) ==
    /\ IsEvaluate(c)
    /\ c.enter
    /\ c.expression # <<>>
    /\ ~startswith(c.expression, <<":">>)
    /\ ~_validate_set_variable(c.expression)
    /\ returned = True

\* C17: from a state whose stack holds at least one slot, after an
\* evaluate(e, enter=true) that commits e, a pop() called next returns e
\* and leaves slot 0 empty and the committed slots as they were before the
\* commit.
C17_PopUndoesCommit ==
    [][(Len(_stack) >= 1 /\ CommitsExpression(call', ret'))
       => LET undone == pop(Self')
          IN  /\ ~raised'
              /\ ~undone.raised
              /\ undone.ret = PyStr(call'.expression)
              /\ undone.self._stack[1] = Empty
              /\ Committed(undone.self._stack) = Committed(_stack)]_vars

\* pop() right after the commit of "2+2" over an older entry: it returned
\* "2+2" and the older entry is at index 1 again.
C17_Witness ==
    /\ call.op = "pop"
    /\ ret = PyStr(T_sum)
    /\ _stack = <<Empty, <<PyStr(T_a_eq_5), True>>>>

\* The committed history a call must leave, as the specification tells it:
\* the commit of a valid general expression puts (e, raw result) in front,
\* pop() removes the front entry, clear() and a committed ":clear" remove
\* all entries, and every other call leaves the history as it was.
History(c, returned, failed) ==
    IF IsEvaluate(c) /\ c.enter /\ ValidExpression(c.expression) /\ ~failed
    THEN <<<<PyStr(c.expression), Interpreter(c.expression, symtable).result>>>>
         \o Committed(_stack)
    ELSE IF c.op = "pop"
    THEN SubSeq(_stack, 3, Len(_stack))
    ELSE IF c.op = "clear" \/ (IsEvaluate(c) /\ c.enter /\ c.expression = T_clear)
    THEN <<>>
    ELSE Committed(_stack)

\* C18: the slots at index >= 1 are exactly the committed expressions that
\* were not popped or cleared since, most recent first, each with the
\* non-empty text and the raw result it was pushed with; no preview,
\* command, assignment or failed evaluation changes them.
C18_HistoryIsCommits ==
    [][/\ Committed(_stack') = History(call', ret', raised')
       /\ \A i \in 2..Len(_stack') :
             /\ _stack'[i][1].t = "str"
             /\ _stack'[i][1].s # <<>>]_vars

\* The type and format commands, and the command that selects a value.
ModeCommands == DOMAIN Commanded \ {T_clear}

CommandOf(value) == CHOOSE c \in ModeCommands : Commanded[c][2] = value

\* What the accessors give for slot i of an object.
Shown(self, i) ==
    [expression |-> get_expression(self, i).ret,
     result |-> {[ret |-> out.ret, raised |-> out.raised] : out \in get_result(self, i)}]

\* The object after the ValueType and ValueFormat it had before are
\* selected again by their commands.
Reselected(self, type, format) ==
    evaluate(evaluate(self, CommandOf(type), TRUE).self, CommandOf(format), TRUE).self

\* The object right after the commit of the one number of SpecNum.
Committing(expression) ==
    evaluate(evaluate(Kalkon, expression, FALSE).self, expression, TRUE).self

\* C19: committing a type or format command leaves the stored (expression,
\* raw result) of every committed slot as it was; selecting the former
\* ValueType and ValueFormat again gives, for every slot i >= 1, the
\* get_expression(i) and get_result(i) of before; and after any sequence of
\* such commands that ends in the initial mode they are those of the
\* object before the sequence.
C19_ModeCommandsReversible ==
    [][/\ (IsEvaluate(call') /\ call'.enter /\ call'.expression \in ModeCommands)
          => /\ Committed(_stack') = Committed(_stack)
             /\ \A i \in 1..Len(_stack) :
                   /\ Shown(Self', i).expression = Shown(Self, i).expression
                   /\ Shown(Reselected(Self', _type, _format), i) = Shown(Self, i)
       /\ (Len(_stack') = 2 /\ _type' = Kalkon._type /\ _format' = Kalkon._format)
          => Shown(Self', 1) = Shown(Committing(_stack'[2][1].s), 1)]_vars

\* ":dec" was committed, INT64 and DECIMAL are selected again, and the
\* committed number is in place.
C19_Witness ==
    /\ call = Op("evaluate", T_dec, TRUE)
    /\ _type = "INT64"
    /\ _format = "DECIMAL"
    /\ _stack = <<Empty, <<PyStr(T_minus_129), PyInt(-129)>>>>

====
